---- MODULE Spec2Model ----
(***************************************************************************)
(* The in-memory rate limiter of the chat endpoint (rateLimiter.ts) and    *)
(* the POST /api/chat handler that consults it (routes.ts).                *)
(*                                                                         *)
(* Node runs each handler to completion between awaits, so every action    *)
(* below is one run-to-completion step of the event loop: the arrival of   *)
(* a chat request up to its first await, the completion of a provider      *)
(* call, one firing of the cleanup interval, or an advance of the clock.   *)
(* Date.now() is modelled as a clock that never goes backwards.            *)
(***************************************************************************)
EXTENDS Integers, FiniteSets, Sequences, TLC

VARIABLES
    requests,      \* RateLimiter.requests: the Map, as a set of keyed entries
    maxRequests,   \* RateLimiter.maxRequests
    windowMs,      \* RateLimiter.windowMs
    now,           \* Date.now()
    nextCleanup,   \* time at which the setInterval timer is next due
    inflight,      \* chat handlers suspended at `await generateFinancialResponse`
    ticks,         \* number of clock advances so far (bounds the run)
    op,            \* history: what the last step was and what it returned
    noGc,          \* history: the Map of a limiter in which cleanup never runs
    win            \* history: per client, the window opened by its last fresh entry

vars == <<requests, maxRequests, windowMs, now, nextCleanup, inflight, ticks,
          op, noGc, win>>

----------------------------------------------------------------------------
(* Bounds of the model *)

MaxN == 2                 \* maxRequests is drawn from 1..MaxN
MaxTicks == 3             \* clock advances in one run
MaxInFlight == 1          \* handlers suspended at the provider call at once
MaxCalls == MaxN + 1      \* checkLimit calls followed inside one window

(* Program constants *)

CleanupIntervalMs == 60000
WindowMinutes == 1
MsPerMinute == 60 * 1000
StatusTooMany == 429
StatusBadRequest == 400
StatusServerError == 500
StatusOk == 200

None == 0 - 1
NoEntry == [key |-> "", count |-> 0, resetTime |-> None]

\* <<req.ip, req.socket.remoteAddress>> of the requests that arrive
Sources == {<<"1.2.3.4", "1.2.3.4">>, <<"", "1.2.3.4">>, <<"", "">>}
Messages == {"", "hi"}
Clients == {"1.2.3.4", "unknown"}
TickSteps == {1, CleanupIntervalMs - 1}
Horizon == CleanupIntervalMs + 2    \* the clock is followed up to this instant

----------------------------------------------------------------------------
(* The Map<string, RateLimitEntry> *)

MapHas(m, k) == \E e \in m : e.key = k

MapGet(m, k) == IF MapHas(m, k) THEN CHOOSE e \in m : e.key = k ELSE NoEntry

\* variant: set() that adds without replacing the entry of the key
MapSetDup(m, k, c, r) == m \cup {[key |-> k, count |-> c, resetTime |-> r]}

\* variant: set() that drops the entries of the other keys
MapSetClearsOthers(m, k, c, r) == {[key |-> k, count |-> c, resetTime |-> r]}

MapSet(m, k, c, r) ==
    {e \in m : e.key # k} \cup {[key |-> k, count |-> c, resetTime |-> r]}

----------------------------------------------------------------------------
(* RateLimiter *)

WindowMs(windowMinutes) == windowMinutes * MsPerMinute

\* cleanup(): the test of line 22
\* variant: <= in place of <
CleanupExpiredAtOrBefore(entry, t) == entry.resetTime <= t

\* variant: every entry is deleted
CleanupExpiredAlways(entry, t) == TRUE

CleanupExpired(entry, t) == entry.resetTime < t

Cleanup(m, t) == {e \in m : ~CleanupExpired(e, t)}

\* setInterval: when the timer is due again after a run at time t
\* variant: setTimeout in place of setInterval, the timer is never due again
RearmNever(t) == t + 1000 * CleanupIntervalMs

Rearm(t) == t + CleanupIntervalMs

\* checkLimit(): the test of line 32
\* variant: the expiry test is missing
StartsFreshNever(entry, t) == entry = NoEntry

\* variant: <= in place of <
StartsFreshAtOrBefore(entry, t) == entry = NoEntry \/ entry.resetTime <= t

StartsFresh(entry, t) == entry = NoEntry \/ entry.resetTime < t

\* checkLimit(): the test of line 40
\* variant: > in place of >=
LimitReachedOffByOne(entry, max) == entry.count > max

LimitReached(entry, max) == entry.count >= max

\* checkLimit(): the value returned on line 41
\* variant: a resetTime computed from the time of the denied call
DeniedResetTimeFromNow(entry, t, w) == t + w

DeniedResetTime(entry, t, w) == entry.resetTime

\* checkLimit(): the entry written on lines 33-36
FreshResetTime(entry, t, w) == t + w

\* checkLimit(): entry.count++ of line 44
\* variant: the increment is lost
IncrementedCountStale(entry) == entry.count

IncrementedCount(entry) == entry.count + 1

\* checkLimit(): the resetTime of an entry whose count line 44 increments
\* variant: every admitted call moves the end of the window
KeptResetTimeSliding(entry, t, w) == t + w

KeptResetTime(entry, t, w) == entry.resetTime

\* checkLimit(identifier) on Map m at time t: the decision and the Map after
CheckLimit(m, identifier, t, max, w) ==
    LET entry == MapGet(m, identifier) IN
    IF StartsFresh(entry, t)
    THEN [allowed |-> TRUE, resetTime |-> None,
          map |-> MapSet(m, identifier, 1, FreshResetTime(entry, t, w))]
    ELSE IF LimitReached(entry, max)
    THEN [allowed |-> FALSE, resetTime |-> DeniedResetTime(entry, t, w), map |-> m]
    ELSE [allowed |-> TRUE, resetTime |-> None,
          map |-> MapSet(m, identifier, IncrementedCount(entry),
                        KeptResetTime(entry, t, w))]

----------------------------------------------------------------------------
(* POST /api/chat *)

\* req.ip || req.socket.remoteAddress || 'unknown'
ClientIp(ip, remoteAddress) ==
    IF ip # "" THEN ip ELSE IF remoteAddress # "" THEN remoteAddress ELSE "unknown"

\* chatRequestSchema.parse: message is a string of length >= 1
SchemaAccepts(message) == Len(message) >= 1

\* the branch of line 18: a denied request returns, an admitted one goes on
\* variant: the return of line 21 is missing
GoesOnIgnoringLimit(allowed) == TRUE

GoesOn(allowed) == allowed

\* the collaborators a request has reached when the handler answers 400 (the
\* catch block after chatRequestSchema.parse throws) ...
ReachedOnInvalid == {"validate"}

\* ... when it is suspended at await generateFinancialResponse ...
ReachedOnSuspend == {"validate", "ai"}

\* ... when the provider call has resolved: trackChatRequest of line 43 ...
ReachedOnResolve == {"validate", "ai", "track"}

\* ... and when the provider call has rejected: the catch block of lines 51-64
\* variant: tracking is also done on the failure path
ReachedOnRejectTracked == {"validate", "ai", "track"}

ReachedOnReject == {"validate", "ai"}

\* the handlers suspended at the provider call, counted by client and decision
InFlightTotal ==
    LET keys == Clients \X BOOLEAN
        Sum[S \in SUBSET keys] ==
            IF S = {} THEN 0
            ELSE LET k == CHOOSE x \in S : TRUE IN inflight[k] + Sum[S \ {k}]
    IN Sum[keys]

OpRecord(kind, client, addressed, pre, shadowPre, res, shadow, status, retryAfter, reached) ==
    [kind |-> kind, client |-> client, addressed |-> addressed,
     pre |-> pre, shadowPre |-> shadowPre,
     allowed |-> res.allowed, resetTime |-> res.resetTime,
     shadowAllowed |-> shadow.allowed, shadowResetTime |-> shadow.resetTime,
     status |-> status, retryAfter |-> retryAfter, reached |-> reached]

NoResult == [allowed |-> FALSE, resetTime |-> None]

NoOp(kind) == OpRecord(kind, "", FALSE, NoEntry, NoEntry, NoResult, NoResult, None, None, {})

\* History variable win: a client's window is opened by its first call, and by
\* its first call after the instant at which the window before it ended.
WinExpired(w, t, len) == w.start = None \/ w.start + len < t

WinAfter(w, fresh, allowed, t) ==
    IF fresh
    THEN [start |-> t, calls |-> 1, allowed |-> 1]
    ELSE [start |-> w.start, calls |-> w.calls + 1,
          allowed |-> w.allowed + (IF allowed THEN 1 ELSE 0)]

\* History kept only by the specifications that audit the admissions: the
\* number of Allowed calls of a client inside the probe interval
\* (ProbeEnd - windowMs, ProbeEnd], and whether any call of its current window
\* reached the provider call (1) or none did (0).
ProbeEnd == Horizon - 1

InProbe(t, len) == ProbeEnd - len < t /\ t <= ProbeEnd

WinAudit(w, next, audit, fresh, allowed, provided, t, len) ==
    [start |-> next.start, calls |-> next.calls, allowed |-> next.allowed,
     recent |-> IF "recent" \in audit /\ allowed /\ InProbe(t, len)
                THEN w.recent + 1 ELSE w.recent,
     provided |-> IF "provided" \in audit
                  THEN (IF provided \/ (~fresh /\ w.provided = 1) THEN 1 ELSE 0)
                  ELSE w.provided]

Init ==
    /\ requests = {}
    /\ maxRequests \in 1..MaxN
    /\ windowMs = WindowMs(WindowMinutes)
    /\ now = 0
    /\ nextCleanup = CleanupIntervalMs
    /\ inflight = [k \in Clients \X BOOLEAN |-> 0]
    /\ ticks = 0
    /\ op = NoOp("init")
    /\ noGc = {}
    /\ win = [c \in Clients |-> [start |-> None, calls |-> 0, allowed |-> 0,
                               recent |-> 0, provided |-> 0]]

\* Date.now() advances
Tick ==
    /\ ticks < MaxTicks
    /\ \E d \in TickSteps : now + d <= Horizon /\ now' = now + d
    /\ ticks' = ticks + 1
    /\ op' = NoOp("tick")
    /\ UNCHANGED <<requests, maxRequests, windowMs, nextCleanup, inflight, noGc, win>>

\* the setInterval callback of the constructor fires
CleanupRun ==
    /\ now >= nextCleanup
    /\ requests' = Cleanup(requests, now)
    /\ nextCleanup' = Rearm(now)
    /\ op' = NoOp("cleanup")
    /\ UNCHANGED <<maxRequests, windowMs, now, inflight, ticks, noGc, win>>

\* A chat request arrives: lines 12-31 of the handler, up to the first await,
\* and the catch block for what is thrown before it. `audit` names the audit
\* history the step keeps.
Arrive(audit) ==
    \E source \in Sources, message \in Messages :
      \E clientIp \in {ClientIp(source[1], source[2])} :
      \E addressed \in {source[1] # "" \/ source[2] # ""} :
      \E pre \in {MapGet(requests, clientIp)} :
      \E res \in {CheckLimit(requests, clientIp, now, maxRequests, windowMs)} :
      \E shadow \in {CheckLimit(noGc, clientIp, now, maxRequests, windowMs)} :
      \E shadowPre \in {MapGet(noGc, clientIp)} :
      \E fresh \in {WinExpired(win[clientIp], now, windowMs)} :
      \E provided \in {GoesOn(res.allowed) /\ SchemaAccepts(message)} :
      /\ now <= Horizon
      /\ fresh \/ win[clientIp].calls < MaxCalls
      /\ requests' = res.map
      /\ noGc' = shadow.map
      /\ win' = [win EXCEPT ![clientIp] =
                    WinAudit(@, WinAfter(@, fresh, res.allowed, now), audit,
                             fresh, res.allowed, provided, now, windowMs)]
      /\ IF ~GoesOn(res.allowed)
         THEN /\ op' = OpRecord("chat", clientIp, addressed, pre, shadowPre, res, shadow,
                                StatusTooMany, res.resetTime, {})
              /\ UNCHANGED inflight
         ELSE IF ~SchemaAccepts(message)
         THEN /\ op' = OpRecord("chat", clientIp, addressed, pre, shadowPre, res, shadow,
                                StatusBadRequest, None, ReachedOnInvalid)
              /\ UNCHANGED inflight
         ELSE /\ InFlightTotal < MaxInFlight
              /\ inflight' = [inflight EXCEPT ![<<clientIp, res.allowed>>] = @ + 1]
              /\ op' = OpRecord("chat", clientIp, addressed, pre, shadowPre, res, shadow,
                                None, None, ReachedOnSuspend)
      /\ UNCHANGED <<maxRequests, windowMs, now, nextCleanup, ticks>>

ChatArrive == Arrive({})

\* The provider call of a suspended handler resolves: lines 36-50
ChatResolve ==
    \E k \in Clients \X BOOLEAN :
      /\ inflight[k] > 0
      /\ inflight' = [inflight EXCEPT ![k] = @ - 1]
      /\ op' = OpRecord("resolve", "", FALSE, NoEntry, NoEntry,
                        [allowed |-> k[2], resetTime |-> None],
                        NoResult, StatusOk, None, ReachedOnResolve)
      /\ UNCHANGED <<requests, maxRequests, windowMs, now, nextCleanup, ticks, noGc, win>>

\* The provider call of a suspended handler rejects: lines 51-64
ChatReject ==
    \E k \in Clients \X BOOLEAN :
      /\ inflight[k] > 0
      /\ inflight' = [inflight EXCEPT ![k] = @ - 1]
      /\ op' = OpRecord("reject", "", FALSE, NoEntry, NoEntry,
                        [allowed |-> k[2], resetTime |-> None],
                        NoResult, StatusServerError, None, ReachedOnReject)
      /\ UNCHANGED <<requests, maxRequests, windowMs, now, nextCleanup, ticks, noGc, win>>

Next == Tick \/ CleanupRun \/ ChatArrive \/ ChatResolve \/ ChatReject

Spec == Init /\ [][Next]_vars

\* No request arrives any more and time goes on, past every stored resetTime
\* and past the instant at which the cleanup timer is due.
Elapse ==
    /\ now <= Horizon
    /\ now' = Horizon + windowMs + CleanupIntervalMs
    /\ op' = NoOp("tick")
    /\ UNCHANGED <<requests, maxRequests, windowMs, nextCleanup, inflight, ticks,
                   noGc, win>>

FairNext == Next \/ Elapse

\* The clock does not stop, and the interval timer, which is never cleared,
\* fires once it is due.
FairSpec == Init /\ [][FairNext]_vars /\ WF_vars(Elapse) /\ WF_vars(CleanupRun)

\* The same program, keeping the count of admissions inside the probe interval
ChatArriveProbed == Arrive({"recent"})

NextProbed == Tick \/ CleanupRun \/ ChatArriveProbed \/ ChatResolve \/ ChatReject

SpecProbed == Init /\ [][NextProbed]_vars

\* The same program, keeping whether a window's calls reached the provider
ChatArriveAudited == Arrive({"provided"})

NextAudited == Tick \/ CleanupRun \/ ChatArriveAudited \/ ChatResolve \/ ChatReject

SpecAudited == Init /\ [][NextAudited]_vars

----------------------------------------------------------------------------
(* Properties *)

Entry(c) == MapGet(requests, c)

IsChat == op.kind = "chat"

OthersOf(m, c) == {e \in m : e.key # c}

\* C1: in a window opened from no entry or an expired entry, the calls made
\* before the window's resetTime are Allowed up to the maxRequests-th, and the
\* (maxRequests+1)-th is Denied, carrying the window's resetTime.
C1_FirstMaxAllowedNextDenied ==
    (IsChat /\ now < win[op.client].start + windowMs) =>
        /\ (win[op.client].calls <= maxRequests => op.allowed)
        /\ (win[op.client].calls = maxRequests + 1 =>
                /\ ~op.allowed
                /\ op.resetTime = win[op.client].start + windowMs)

C1_Witness ==
    /\ IsChat
    /\ now < win[op.client].start + windowMs
    /\ win[op.client].calls = maxRequests + 1
    /\ ~op.allowed

\* C2: whatever handlers are suspended while further requests of the same
\* client arrive, a window admits exactly min(calls, maxRequests) of the calls
\* made in it: never more than maxRequests, and none is refused before that.
C2_ExactlyMaxAdmitted ==
    \A c \in Clients :
        win[c].allowed = (IF win[c].calls <= maxRequests
                          THEN win[c].calls ELSE maxRequests)

C2_Witness ==
    /\ IsChat
    /\ ~op.allowed
    /\ inflight[<<op.client, TRUE>>] > 0
    /\ win[op.client].calls > maxRequests
    /\ win[op.client].allowed = maxRequests

\* C3: a call made after the stored resetTime has elapsed is Allowed whatever
\* the stored count, and replaces the entry by count = 1, resetTime = now + windowMs.
C3_ExpiredEntryStartsNewWindow ==
    (IsChat /\ op.pre # NoEntry /\ op.pre.resetTime < now) =>
        /\ op.allowed
        /\ Entry(op.client) =
              [key |-> op.client, count |-> 1, resetTime |-> now + windowMs]

C3_Witness ==
    /\ IsChat
    /\ op.pre # NoEntry
    /\ op.pre.resetTime < now
    /\ op.pre.count = maxRequests
    /\ op.allowed

\* C4 as claimed: a call at exactly now = resetTime on a full entry is Allowed
\* and starts a fresh window.
C4_Claimed_BoundaryStartsNewWindow ==
    (IsChat /\ op.pre # NoEntry /\ op.pre.resetTime = now
            /\ op.pre.count = maxRequests) =>
        /\ op.allowed
        /\ Entry(op.client) =
              [key |-> op.client, count |-> 1, resetTime |-> now + windowMs]

\* C4 as amended: an entry is expired only when its resetTime is strictly
\* before the current time. A call at exactly now = resetTime finds the entry
\* live: on a full entry it is Denied with that resetTime and the entry stays,
\* on an entry below the limit it is Allowed and only the count grows.
C4_BoundaryEntryIsLive ==
    (IsChat /\ op.pre # NoEntry /\ op.pre.resetTime = now) =>
        IF op.pre.count = maxRequests
        THEN /\ ~op.allowed
             /\ op.resetTime = op.pre.resetTime
             /\ Entry(op.client) = op.pre
        ELSE /\ op.allowed
             /\ Entry(op.client) =
                   [op.pre EXCEPT !.count = op.pre.count + 1]

C4_Witness ==
    /\ IsChat
    /\ op.pre # NoEntry
    /\ op.pre.resetTime = now
    /\ op.pre.count = maxRequests
    /\ ~op.allowed

\* C5: checkLimit(c) leaves the entry of every other client as it was.
C5_OtherClientsUntouched ==
    [][op'.kind = "chat" =>
          OthersOf(requests', op'.client) = OthersOf(requests, op'.client)]_vars

\* both clients have used their whole window at the same instant
C5_Witness ==
    /\ IsChat
    /\ \A c \in Clients :
          /\ win[c].start = now
          /\ win[c].allowed = maxRequests
          /\ Entry(c).count = maxRequests
    /\ maxRequests > 1

\* C6: every entry of the Map has 1 <= count <= maxRequests, and no two
\* entries have the same client identifier.
C6_CountInRangeOneEntryPerClient ==
    /\ \A e \in requests : 1 <= e.count /\ e.count <= maxRequests
    /\ \A e1, e2 \in requests : e1.key = e2.key => e1 = e2

C6_Witness ==
    /\ op.kind = "cleanup"
    /\ \E e \in requests : e.count = maxRequests /\ maxRequests > 1
    /\ \E e \in noGc : e \notin requests

\* C7: a Denied decision carries the resetTime of the client's entry, which is
\* the time of the call that opened the window plus windowMs; an Allowed
\* decision carries none.
C7_DeniedCarriesResetTime ==
    IsChat =>
        IF op.allowed
        THEN op.resetTime = None
        ELSE /\ op.resetTime = Entry(op.client).resetTime
             /\ op.resetTime = win[op.client].start + windowMs

C7_Witness ==
    /\ IsChat
    /\ ~op.allowed
    /\ now > win[op.client].start

\* C8 as claimed: cleanup at time t removes the entries with resetTime <= t and
\* leaves exactly those with resetTime > t.
C8_Claimed_RemovesAtOrBefore ==
    [][op'.kind = "cleanup" =>
          requests' = {e \in requests : e.resetTime > now}]_vars

\* C8 as amended: cleanup at time t removes the entries with resetTime < t and
\* leaves, unchanged, exactly those with resetTime >= t: an entry with
\* resetTime = t is kept.
C8_RemovesStrictlyBefore ==
    [][op'.kind = "cleanup" =>
          requests' = {e \in requests : e.resetTime >= now}]_vars

\* a run that removed an entry and kept one whose resetTime is the scan time
C8_Witness ==
    /\ op.kind = "cleanup"
    /\ \E e \in requests : e.resetTime = now
    /\ \E e \in noGc : e \notin requests /\ e.resetTime < now

\* C9: every decision is the one a limiter in which cleanup never runs gives
\* to the same calls at the same times.
C9_CleanupUnobservable ==
    IsChat =>
        /\ op.allowed = op.shadowAllowed
        /\ op.resetTime = op.shadowResetTime

\* a call for a client whose full, expired entry cleanup has removed
C9_Witness ==
    /\ IsChat
    /\ op.pre = NoEntry
    /\ op.shadowPre # NoEntry
    /\ op.shadowPre.count = maxRequests
    /\ op.allowed

\* C10: a request that checkLimit denies is answered 429 with retryAfter = the
\* returned resetTime, and reaches neither validation, nor the provider call,
\* nor usage tracking, then or later.
C10_DeniedAnswered429 ==
    /\ (IsChat /\ ~op.allowed) =>
          /\ op.status = StatusTooMany
          /\ op.retryAfter = op.resetTime
          /\ op.reached = {}
    /\ \A c \in Clients : inflight[<<c, FALSE>>] = 0
    /\ op.kind \in {"resolve", "reject"} => op.allowed

C10_Witness ==
    /\ IsChat
    /\ ~op.allowed
    /\ op.status = StatusTooMany
    /\ op.retryAfter = win[op.client].start + windowMs
    /\ InFlightTotal > 0

\* C11 as claimed: every request that checkLimit allows reaches the provider
\* call, and usage tracking is reached whatever becomes of the provider call.
C11_Claimed_AllowedReachesProviderAndTracking ==
    /\ (IsChat /\ op.allowed) => "ai" \in op.reached
    /\ op.kind \in {"resolve", "reject"} => "track" \in op.reached

\* C11 as amended: a request that checkLimit allows is validated first; with an
\* invalid body it is answered 400 and reaches neither collaborator; otherwise
\* the provider is called, and usage tracking is reached only when that call
\* resolves (answer 200), not when it rejects (answer 500).
C11_AllowedValidatedThenProviderThenTracking ==
    /\ (IsChat /\ op.allowed) =>
          \/ op.status = StatusBadRequest /\ op.reached = {"validate"}
          \/ /\ op.status = None
             /\ op.reached = {"validate", "ai"}
             /\ inflight[<<op.client, TRUE>>] > 0
    /\ op.kind = "resolve" =>
          op.status = StatusOk /\ op.reached = {"validate", "ai", "track"}
    /\ op.kind = "reject" =>
          op.status = StatusServerError /\ op.reached = {"validate", "ai"}

\* an allowed request whose provider call has rejected: answered 500, untracked
C11_Witness ==
    /\ op.kind = "reject"
    /\ op.allowed
    /\ "track" \notin op.reached
    /\ op.status = StatusServerError

\* C12 as claimed, at the instant t = ProbeEnd: the Allowed calls of a client
\* in (t - windowMs, t] are at most maxRequests, also when the interval
\* straddles the end of one stored window and the start of the next.
C12_Claimed_SlidingWindow ==
    \A c \in Clients : win[c].recent <= maxRequests

\* C12 as amended: the limiter is a fixed-window limiter. The Allowed calls of
\* one stored window are at most maxRequests; an interval (t - windowMs, t]
\* that straddles two stored windows can hold more, up to 2 * maxRequests - 1.
C12_FixedWindow ==
    \A c \in Clients :
        /\ win[c].allowed <= maxRequests
        /\ MapHas(requests, c) => Entry(c).count = win[c].allowed
        /\ win[c].recent <= 2 * maxRequests - 1

\* a probe interval that holds 2 * maxRequests - 1 > maxRequests Allowed calls
C12_Witness ==
    \E c \in Clients :
        /\ maxRequests >= 2
        /\ win[c].recent = 2 * maxRequests - 1
        /\ win[c].allowed = maxRequests
        /\ win[c].start > windowMs

\* C14: a Denied call leaves the whole Map as it was, and an Allowed call on a
\* live entry adds one to its count, never above maxRequests, and leaves its
\* resetTime as it was.
C14_DeniedChangesNothing ==
    [][op'.kind = "chat" =>
          /\ ~op'.allowed => requests' = requests
          /\ (op'.allowed /\ op'.pre # NoEntry /\ op'.pre.resetTime >= now) =>
                MapGet(requests', op'.client) =
                    [op'.pre EXCEPT !.count = op'.pre.count + 1]
          /\ MapGet(requests', op'.client).count <= maxRequests]_vars

\* the second Denied call in a row on a full entry
C14_Witness ==
    /\ IsChat
    /\ ~op.allowed
    /\ win[op.client].calls = maxRequests + 2
    /\ Entry(op.client) = op.pre
    /\ Entry(op.client).count = maxRequests
    /\ Entry(op.client).resetTime = win[op.client].start + windowMs

\* C15: every chat request is counted by checkLimit before it is validated: an
\* Allowed request adds to the client's count also when it is then answered
\* 400, a request is answered 429 exactly when its window already holds
\* maxRequests calls of any kind, and a request with no address is counted
\* under "unknown".
C15_EveryRequestCounts ==
    IsChat =>
        /\ op.status = StatusTooMany <=> win[op.client].calls > maxRequests
        /\ op.allowed =>
              Entry(op.client).count =
                  (IF op.pre = NoEntry \/ op.pre.resetTime < now
                   THEN 1 ELSE op.pre.count + 1)
        /\ ~op.addressed => op.client = "unknown"
        /\ op.addressed => op.client # "unknown"

\* a request without address refused 429 although no call of its window
\* reached the provider
C15_Witness ==
    /\ IsChat
    /\ op.status = StatusTooMany
    /\ ~op.addressed
    /\ op.client = "unknown"
    /\ win["unknown"].provided = 0
    /\ win["unknown"].calls = maxRequests + 1
    /\ InFlightTotal = 0

\* C13: when the cleanup timer keeps firing and time keeps passing, the entry
\* of a client that calls no more is eventually deleted: every entry present
\* in the Map is later absent from it, and in the end the Map stays empty.
C13_EntriesEventuallyRemoved ==
    /\ \A c \in Clients : MapHas(requests, c) ~> ~MapHas(requests, c)
    /\ <>[](requests = {})

\* a cleanup run after the last request that emptied a Map that held entries
C13_Witness ==
    /\ op.kind = "cleanup"
    /\ now > Horizon
    /\ requests = {}
    /\ noGc # {}

====
